---- MODULE Spec2Model ----
(***************************************************************************)
(* The student/teacher workflow of samples/workflows/simple_workflow.py:   *)
(* two executors on the cycle teacher -> student -> teacher, the handlers  *)
(* of each, and the part of main that builds and runs the workflow.        *)
(*                                                                         *)
(* A conversation is a Python list passed on by reference, so the lists    *)
(* live in a heap (lists) and messages and handler invocations hold an     *)
(* index into it.  A handler invocation is a record in inv[w]; its pc is   *)
(* the await it is suspended on ("sleep": asyncio.sleep, "run": agent.run).*)
(* Deliveries are taken from pending[w] in any order and may start while   *)
(* another invocation is suspended: nothing here serialises them, so what  *)
(* is shown about their order is a consequence of the handlers' code.      *)
(***************************************************************************)
EXTENDS Integers, Sequences, FiniteSets, TLC

\* ------------------------------------------------------------- constants
\* The turn limit of line 135 (`if self.turn_count >= 5`).
TurnLimit == 5

\* The start message of line 201.
StartMessage == "Start the quiz session."

\* The workflows that can be built: main builds one; a second one is the
\* same configuration built again with separately constructed executors.
Workflows == {1, 2}

\* Mutant of Edges: the edge back from the student is missing.
EdgesOneWay == {<<"teacher", "student">>}

\* The edges of lines 195-196 and the start executor of line 197.
Edges == {<<"teacher", "student">>, <<"student", "teacher">>}
StartExecutor == "teacher"

\* --------------------------------------------------------------- bounds
\* Largest turn limit tried when the limit is taken as a parameter.
MaxLimit == 5
\* Agent replies of a run that are not one plain assistant turn.
MaxOdd == 2
\* Most turns in one agent response.
MaxResp == 2
\* Runs started on one built workflow.
MaxRuns == 2

VARIABLES
    mainpc,      \* [w]: where the caller of workflow w is (main, lines 179-206)
    turn_limit,  \* the limit tested at line 135
    turn_count,  \* [executor]: TeacherAgentExecutor.turn_count
    lists,       \* heap of conversation lists (list[ChatMessage])
    pending,     \* [w]: messages sent and not yet delivered
    inv,         \* [w]: handler invocations in progress
    events,      \* [w]: events added to the stream of the current run
    started,     \* [w][handler]: invocations begun in the current run
    calls,       \* [w][agent]: agent.run calls made in the current run
    odd,         \* [w]: replies other than one plain turn still allowed
    runs,        \* [w]: runs started on workflow w
    conv,        \* [w]: the list built by the current run's start handler
    cleanup      \* [w]: the finally block of main (lines 207-217)

vars == <<mainpc, turn_limit, turn_count, lists, pending, inv, events,
          started, calls, odd, runs, conv, cleanup>>

Handlers == {"handle_start_message", "handle_teacher_question",
             "handle_student_answer"}
Agents == {"teacher", "student"}

\* ------------------------------------------------------------- helpers
RemoveAt(s, i) == SubSeq(s, 1, i - 1) \o SubSeq(s, i + 1, Len(s))

\* ChatMessage(Role.USER, text=message), line 108.
UserTurn(text) == [role |-> "user", by |-> "caller", text |-> text]

\* One message of an agent's response: an assistant turn of that agent.
AssistantTurn(agent, text) == [role |-> "assistant", by |-> agent, text |-> text]

\* Texts an agent may answer with; two of them carry the word "completed"
\* in some letter case.
SentinelTexts == {"Completed", "COMPLETED"}

PlainReply(agent) == <<AssistantTurn(agent, "plain")>>

\* response.messages of one agent.run call: one plain turn, or (while the
\* budget lasts) one turn carrying the sentinel, or several plain turns.
Replies(agent, budget) ==
    {PlainReply(agent)} \cup
    IF budget = 0 THEN {}
    ELSE {<<AssistantTurn(agent, t)>> : t \in SentinelTexts} \cup
         {[i \in 1..n |-> AssistantTurn(agent, "plain")] : n \in 2..MaxResp}

\* Mutant of ExecutorOf: one teacher executor (one counter) behind every
\* built workflow.
ExecutorOfShared(w) == 1

\* The teacher executor a workflow is built with: a fresh instance per
\* build (lines 186-190), so its turn_count is its own.
ExecutorOf(w) == w

\* Mutant of Targets: the edge leads back to the sender.
TargetsSelf(node) == {node}

\* The executor that receives what `node` sends (WorkflowBuilder.add_edge).
Targets(node) == {e[2] : e \in {d \in Edges : d[1] = node}}

\* Mutant of SendMessage: the message is never queued.
SendMessageDropped(w, node, ref) == pending[w]

\* Mutant of SendMessage: the message is queued twice.
SendMessageTwice(w, node, ref) ==
    LET m == [to |-> CHOOSE x \in Targets(node) : TRUE, type |-> "list",
              ref |-> ref]
    IN  pending[w] \o <<m, m>>

\* send_message(messages): one message per outgoing edge of the sender,
\* carrying the list itself (by reference).
SendMessage(w, node, ref) ==
    LET ts == Targets(node)
        t  == CHOOSE x \in ts : TRUE
    IN  IF ts = {} THEN pending[w]
        ELSE Append(pending[w], [to |-> t, type |-> "list", ref |-> ref])

\* Mutant of HandlerFor: the teacher's handlers are told apart by nothing,
\* so every message for the teacher reaches handle_start_message.
HandlerForByNode(node, type) ==
    IF node = "teacher" THEN "handle_start_message"
    ELSE IF node = "student" /\ type = "list" THEN "handle_teacher_question"
    ELSE "none"

\* The handler of `node` that accepts a message of type `type`
\* (the @handler signatures of lines 63-64, 97-98, 118-119).
HandlerFor(node, type) ==
    IF node = "teacher" /\ type = "str" THEN "handle_start_message"
    ELSE IF node = "teacher" /\ type = "list" THEN "handle_student_answer"
    ELSE IF node = "student" /\ type = "list" THEN "handle_teacher_question"
    ELSE "none"

\* The calls of the finally block, in the order of lines 210-215.
CleanupSteps == <<"delete_student", "delete_teacher", "close_client",
                  "close_credential">>

\* The finally block not entered: nothing attempted, nothing done.
NoCleanup == [pc |-> 0, attempted |-> {}, done |-> {}]

NoCount == [h \in Handlers |-> 0]
NoCalls == [a \in Agents |-> 0]

\* ---------------------------------------------------------------- Init
InitWith(active, limits, budget) ==
    /\ mainpc = [w \in Workflows |-> IF w \in active THEN "try" ELSE "off"]
    /\ turn_limit \in limits
    /\ turn_count = [e \in Workflows |-> 0]
    /\ lists = <<>>
    /\ pending = [w \in Workflows |-> <<>>]
    /\ inv = [w \in Workflows |-> <<>>]
    /\ events = [w \in Workflows |-> <<>>]
    /\ started = [w \in Workflows |-> NoCount]
    /\ calls = [w \in Workflows |-> NoCalls]
    /\ odd = [w \in Workflows |-> IF w \in active THEN budget ELSE 0]
    /\ runs = [w \in Workflows |-> 0]
    /\ conv = [w \in Workflows |-> 0]
    /\ cleanup = [w \in Workflows |-> NoCleanup]

\* The program as written: one workflow, the limit of line 135.
Init == InitWith({1}, {TurnLimit}, MaxOdd)

\* ------------------------------------------------------------- actions
\* main, lines 180-199: construct the executors (turn_count=0, line 94)
\* and build the workflow.
BuildWorkflow(w) ==
    /\ mainpc[w] = "try"
    /\ mainpc' = [mainpc EXCEPT ![w] = "built"]
    /\ turn_count' = [turn_count EXCEPT ![ExecutorOf(w)] = 0]
    /\ UNCHANGED <<turn_limit, lists, pending, inv, events, started, calls,
                   odd, runs, conv, cleanup>>

\* main, lines 180-199 and 205: constructing an executor or building the
\* workflow raises, which the except branch catches.
BuildRaises(w) ==
    /\ mainpc[w] = "try"
    /\ mainpc' = [mainpc EXCEPT ![w] = "except"]
    /\ UNCHANGED <<turn_limit, turn_count, lists, pending, inv, events,
                   started, calls, odd, runs, conv, cleanup>>

\* Mutant of BeginRun: the run also resets the teacher's counter.
BeginRunReset(w) ==
    /\ mainpc' = [mainpc EXCEPT ![w] = "stream"]
    /\ pending' = [pending EXCEPT ![w] =
            <<[to |-> StartExecutor, type |-> "str", ref |-> 0]>>]
    /\ events' = [events EXCEPT ![w] = <<>>]
    /\ started' = [started EXCEPT ![w] = NoCount]
    /\ calls' = [calls EXCEPT ![w] = NoCalls]
    /\ runs' = [runs EXCEPT ![w] = @ + 1]
    /\ conv' = [conv EXCEPT ![w] = 0]
    /\ turn_count' = [turn_count EXCEPT ![ExecutorOf(w)] = 0]
    /\ UNCHANGED <<turn_limit, lists, inv, odd, cleanup>>

\* workflow.run_stream(...): a new event stream, the start message pending
\* for the start executor.  Nothing of the executors is reset.
BeginRun(w) ==
    /\ mainpc' = [mainpc EXCEPT ![w] = "stream"]
    /\ pending' = [pending EXCEPT ![w] =
            <<[to |-> StartExecutor, type |-> "str", ref |-> 0]>>]
    /\ events' = [events EXCEPT ![w] = <<>>]
    /\ started' = [started EXCEPT ![w] = NoCount]
    /\ calls' = [calls EXCEPT ![w] = NoCalls]
    /\ runs' = [runs EXCEPT ![w] = @ + 1]
    /\ conv' = [conv EXCEPT ![w] = 0]
    /\ UNCHANGED <<turn_limit, turn_count, lists, inv, odd, cleanup>>

\* main, line 201.
RunStream(w) ==
    /\ mainpc[w] = "built"
    /\ BeginRun(w)

\* Mutant of HandleStartMessage: the limit is tested before the first
\* agent call, and a reached limit ends the run there.
HandleStartMessageChecked(w) ==
    /\ mainpc[w] = "stream"
    /\ \E i \in 1..Len(pending[w]) :
         LET m == pending[w][i] IN
         /\ HandlerFor(m.to, m.type) = "handle_start_message"
         /\ pending' = [pending EXCEPT ![w] = RemoveAt(@, i)]
         /\ lists' = Append(lists, <<UserTurn(StartMessage)>>)
         /\ IF turn_count[ExecutorOf(w)] >= turn_limit
            THEN /\ events' = [events EXCEPT ![w] =
                        Append(@, "WorkflowCompletedEvent")]
                 /\ UNCHANGED <<inv, calls>>
            ELSE /\ inv' = [inv EXCEPT ![w] = Append(@,
                        [h |-> "handle_start_message", node |-> "teacher",
                         pc |-> "run", ref |-> Len(lists) + 1])]
                 /\ calls' = [calls EXCEPT ![w]["teacher"] = @ + 1]
                 /\ UNCHANGED events
    /\ started' = [started EXCEPT ![w]["handle_start_message"] = @ + 1]
    /\ conv' = [conv EXCEPT ![w] = Len(lists) + 1]
    /\ UNCHANGED <<mainpc, turn_limit, turn_count, odd, runs, cleanup>>

\* Mutant of HandleStartMessage: the new list is sent on before the agent
\* is awaited, and extended by the handler afterwards.
HandleStartMessageSendsFirst(w) ==
    /\ mainpc[w] = "stream"
    /\ \E i \in 1..Len(pending[w]) :
         LET m == pending[w][i] IN
         /\ HandlerFor(m.to, m.type) = "handle_start_message"
         /\ pending' = [pending EXCEPT ![w] = Append(RemoveAt(@, i),
                [to |-> "student", type |-> "list", ref |-> Len(lists) + 1])]
         /\ lists' = Append(lists, <<UserTurn(StartMessage)>>)
         /\ inv' = [inv EXCEPT ![w] = Append(@,
                [h |-> "handle_start_message", node |-> "teacher",
                 pc |-> "run", ref |-> Len(lists) + 1])]
    /\ started' = [started EXCEPT ![w]["handle_start_message"] = @ + 1]
    /\ calls' = [calls EXCEPT ![w]["teacher"] = @ + 1]
    /\ conv' = [conv EXCEPT ![w] = Len(lists) + 1]
    /\ UNCHANGED <<mainpc, turn_limit, turn_count, events, odd, runs, cleanup>>

\* handle_start_message, lines 108-110: build the list and call the agent.
HandleStartMessage(w) ==
    /\ mainpc[w] = "stream"
    /\ \E i \in 1..Len(pending[w]) :
         LET m == pending[w][i] IN
         /\ HandlerFor(m.to, m.type) = "handle_start_message"
         /\ pending' = [pending EXCEPT ![w] = RemoveAt(@, i)]
         /\ lists' = Append(lists, <<UserTurn(StartMessage)>>)
         /\ inv' = [inv EXCEPT ![w] = Append(@,
                [h |-> "handle_start_message", node |-> "teacher",
                 pc |-> "run", ref |-> Len(lists) + 1])]
    /\ started' = [started EXCEPT ![w]["handle_start_message"] = @ + 1]
    /\ calls' = [calls EXCEPT ![w]["teacher"] = @ + 1]
    /\ conv' = [conv EXCEPT ![w] = Len(lists) + 1]
    /\ UNCHANGED <<mainpc, turn_limit, turn_count, events, odd, runs, cleanup>>

\* Mutant of HandleTeacherQuestion: the student's handler counts the turn
\* as well.
HandleTeacherQuestionCounts(w) ==
    /\ mainpc[w] = "stream"
    /\ \E i \in 1..Len(pending[w]) :
         LET m == pending[w][i] IN
         /\ HandlerFor(m.to, m.type) = "handle_teacher_question"
         /\ pending' = [pending EXCEPT ![w] = RemoveAt(@, i)]
         /\ inv' = [inv EXCEPT ![w] = Append(@,
                [h |-> "handle_teacher_question", node |-> "student",
                 pc |-> "sleep", ref |-> m.ref])]
    /\ started' = [started EXCEPT ![w]["handle_teacher_question"] = @ + 1]
    /\ turn_count' = [turn_count EXCEPT ![ExecutorOf(w)] = @ + 1]
    /\ UNCHANGED <<mainpc, turn_limit, lists, events, calls, odd, runs, conv,
                   cleanup>>

\* handle_teacher_question, lines 66-67: up to the sleep.
HandleTeacherQuestion(w) ==
    /\ mainpc[w] = "stream"
    /\ \E i \in 1..Len(pending[w]) :
         LET m == pending[w][i] IN
         /\ HandlerFor(m.to, m.type) = "handle_teacher_question"
         /\ pending' = [pending EXCEPT ![w] = RemoveAt(@, i)]
         /\ inv' = [inv EXCEPT ![w] = Append(@,
                [h |-> "handle_teacher_question", node |-> "student",
                 pc |-> "sleep", ref |-> m.ref])]
    /\ started' = [started EXCEPT ![w]["handle_teacher_question"] = @ + 1]
    /\ UNCHANGED <<mainpc, turn_limit, turn_count, lists, events, calls, odd,
                   runs, conv, cleanup>>

\* handle_student_answer, lines 130-131: up to the sleep.
HandleStudentAnswer(w) ==
    /\ mainpc[w] = "stream"
    /\ \E i \in 1..Len(pending[w]) :
         LET m == pending[w][i] IN
         /\ HandlerFor(m.to, m.type) = "handle_student_answer"
         /\ pending' = [pending EXCEPT ![w] = RemoveAt(@, i)]
         /\ inv' = [inv EXCEPT ![w] = Append(@,
                [h |-> "handle_student_answer", node |-> "teacher",
                 pc |-> "sleep", ref |-> m.ref])]
    /\ started' = [started EXCEPT ![w]["handle_student_answer"] = @ + 1]
    /\ UNCHANGED <<mainpc, turn_limit, turn_count, lists, events, calls, odd,
                   runs, conv, cleanup>>

\* Mutant of StudentWake: the list is sent on before the agent is awaited.
StudentWakeSendsFirst(w) ==
    /\ mainpc[w] = "stream"
    /\ \E i \in 1..Len(inv[w]) :
         /\ inv[w][i].h = "handle_teacher_question"
         /\ inv[w][i].pc = "sleep"
         /\ inv' = [inv EXCEPT ![w][i].pc = "run"]
         /\ pending' = [pending EXCEPT ![w] =
                SendMessage(w, inv[w][i].node, inv[w][i].ref)]
    /\ calls' = [calls EXCEPT ![w]["student"] = @ + 1]
    /\ UNCHANGED <<mainpc, turn_limit, turn_count, lists, events, started,
                   odd, runs, conv, cleanup>>

\* handle_teacher_question, line 69: the sleep is over, call the agent.
StudentWake(w) ==
    /\ mainpc[w] = "stream"
    /\ \E i \in 1..Len(inv[w]) :
         /\ inv[w][i].h = "handle_teacher_question"
         /\ inv[w][i].pc = "sleep"
         /\ inv' = [inv EXCEPT ![w][i].pc = "run"]
    /\ calls' = [calls EXCEPT ![w]["student"] = @ + 1]
    /\ UNCHANGED <<mainpc, turn_limit, turn_count, lists, pending, events,
                   started, odd, runs, conv, cleanup>>

\* Mutant of LimitReached: the limit is taken one turn early.
LimitReachedEarly(count) == count >= turn_limit - 1

\* Mutant of LimitReached: `>` for `>=`.
LimitReachedLate(count) == count > turn_limit

\* The test of line 135.
LimitReached(count) == count >= turn_limit

\* Mutant of TeacherWake: the `return` of line 137 is missing, so the
\* handler goes on to call the agent after adding the completion event.
TeacherWakeNoReturn(w) ==
    /\ mainpc[w] = "stream"
    /\ \E i \in 1..Len(inv[w]) :
         /\ inv[w][i].h = "handle_student_answer"
         /\ inv[w][i].pc = "sleep"
         /\ turn_count' = [turn_count EXCEPT ![ExecutorOf(w)] = @ + 1]
         /\ events' = [events EXCEPT ![w] =
                IF LimitReached(turn_count'[ExecutorOf(w)])
                THEN Append(@, "WorkflowCompletedEvent") ELSE @]
         /\ inv' = [inv EXCEPT ![w][i].pc = "run"]
         /\ calls' = [calls EXCEPT ![w]["teacher"] = @ + 1]
    /\ UNCHANGED <<mainpc, turn_limit, lists, pending, started, odd, runs, conv, cleanup>>

\* Mutant of TeacherWake: the agent is called (line 140) before the limit
\* is tested, so the completing invocation makes a call too.
TeacherWakeCallsFirst(w) ==
    /\ mainpc[w] = "stream"
    /\ \E i \in 1..Len(inv[w]) :
         /\ inv[w][i].h = "handle_student_answer"
         /\ inv[w][i].pc = "sleep"
         /\ turn_count' = [turn_count EXCEPT ![ExecutorOf(w)] = @ + 1]
         /\ calls' = [calls EXCEPT ![w]["teacher"] = @ + 1]
         /\ IF LimitReached(turn_count'[ExecutorOf(w)])
            THEN /\ events' = [events EXCEPT ![w] =
                        Append(@, "WorkflowCompletedEvent")]
                 /\ inv' = [inv EXCEPT ![w] = RemoveAt(@, i)]
            ELSE /\ inv' = [inv EXCEPT ![w][i].pc = "run"]
                 /\ UNCHANGED events
    /\ UNCHANGED <<mainpc, turn_limit, lists, pending, started, odd, runs, conv,
                   cleanup>>

\* handle_student_answer, lines 132-140: the sleep is over; count the turn,
\* then either add the completion event and return, or call the agent.
TeacherWake(w) ==
    /\ mainpc[w] = "stream"
    /\ \E i \in 1..Len(inv[w]) :
         /\ inv[w][i].h = "handle_student_answer"
         /\ inv[w][i].pc = "sleep"
         /\ turn_count' = [turn_count EXCEPT ![ExecutorOf(w)] = @ + 1]
         /\ IF LimitReached(turn_count'[ExecutorOf(w)])
            THEN /\ events' = [events EXCEPT ![w] =
                        Append(@, "WorkflowCompletedEvent")]
                 /\ inv' = [inv EXCEPT ![w] = RemoveAt(@, i)]
                 /\ UNCHANGED calls
            ELSE /\ inv' = [inv EXCEPT ![w][i].pc = "run"]
                 /\ calls' = [calls EXCEPT ![w]["teacher"] = @ + 1]
                 /\ UNCHANGED events
    /\ UNCHANGED <<mainpc, turn_limit, lists, pending, started, odd, runs, conv, cleanup>>

\* Mutant of ExtendAndSend: the response replaces the list's content
\* instead of being appended to it.
ExtendAndSendReplace(w, i, resp) ==
    LET v == inv[w][i] IN
    /\ lists' = [lists EXCEPT ![v.ref] = resp]
    /\ pending' = [pending EXCEPT ![w] = SendMessage(w, v.node, v.ref)]
    /\ inv' = [inv EXCEPT ![w] = RemoveAt(@, i)]
    /\ odd' = [odd EXCEPT ![w] = IF resp = PlainReply(v.node) THEN @ ELSE @ - 1]
    /\ UNCHANGED <<mainpc, turn_limit, turn_count, events, started, calls,
                   runs, conv, cleanup>>

\* Mutant of ExtendAndSend: the response is put in front of the list.
ExtendAndSendPrepend(w, i, resp) ==
    LET v == inv[w][i] IN
    /\ lists' = [lists EXCEPT ![v.ref] = resp \o @]
    /\ pending' = [pending EXCEPT ![w] = SendMessage(w, v.node, v.ref)]
    /\ inv' = [inv EXCEPT ![w] = RemoveAt(@, i)]
    /\ odd' = [odd EXCEPT ![w] = IF resp = PlainReply(v.node) THEN @ ELSE @ - 1]
    /\ UNCHANGED <<mainpc, turn_limit, turn_count, events, started, calls,
                   runs, conv, cleanup>>

\* agent.run has returned `resp` to invocation i of workflow w:
\* messages.extend(response.messages); await ctx.send_message(messages)
\* (lines 73-74, 114-115, 143-144).
ExtendAndSend(w, i, resp) ==
    LET v == inv[w][i] IN
    /\ lists' = [lists EXCEPT ![v.ref] = @ \o resp]
    /\ pending' = [pending EXCEPT ![w] = SendMessage(w, v.node, v.ref)]
    /\ inv' = [inv EXCEPT ![w] = RemoveAt(@, i)]
    /\ odd' = [odd EXCEPT ![w] = IF resp = PlainReply(v.node) THEN @ ELSE @ - 1]
    /\ UNCHANGED <<mainpc, turn_limit, turn_count, events, started, calls,
                   runs, conv, cleanup>>

\* An invocation of handler h of workflow w whose agent.run call returns.
AgentReturns(w, h) ==
    /\ mainpc[w] = "stream"
    /\ \E i \in 1..Len(inv[w]) :
         /\ inv[w][i].h = h
         /\ inv[w][i].pc = "run"
         /\ \E resp \in Replies(inv[w][i].node, odd[w]) :
              ExtendAndSend(w, i, resp)

\* handle_start_message, lines 110-115.
StartResume(w) == AgentReturns(w, "handle_start_message")

\* handle_teacher_question, lines 69-74.
StudentResume(w) == AgentReturns(w, "handle_teacher_question")

\* handle_student_answer, lines 140-144.
TeacherResume(w) == AgentReturns(w, "handle_student_answer")

\* agent.run raises (lines 69, 110, 140): the handler is left at once, the
\* exception leaves run_stream and is caught at line 205.
AgentRaises(w) ==
    /\ mainpc[w] = "stream"
    /\ \E i \in 1..Len(inv[w]) :
         /\ inv[w][i].pc = "run"
         /\ inv' = [inv EXCEPT ![w] = RemoveAt(@, i)]
    /\ mainpc' = [mainpc EXCEPT ![w] = "except"]
    /\ UNCHANGED <<turn_limit, turn_count, lists, pending, events, started,
                   calls, odd, runs, conv, cleanup>>

\* The stream of line 201 is exhausted: nothing pending, no handler running.
StreamEnds(w) ==
    /\ mainpc[w] = "stream"
    /\ pending[w] = <<>>
    /\ inv[w] = <<>>
    /\ mainpc' = [mainpc EXCEPT ![w] = "ended"]
    /\ UNCHANGED <<turn_limit, turn_count, lists, pending, inv, events,
                   started, calls, odd, runs, conv, cleanup>>

\* main, line 207: the try statement is left, normally or through the
\* except branch, and the finally block is entered at line 210.
EnterFinally(w) ==
    /\ mainpc[w] \in {"ended", "except"}
    /\ cleanup[w].pc = 0
    /\ cleanup' = [cleanup EXCEPT ![w].pc = 1]
    /\ UNCHANGED <<mainpc, turn_limit, turn_count, lists, pending, inv,
                   events, started, calls, odd, runs, conv>>

\* main, lines 210-215: the next call of the finally block is made and
\* returns; after the last one (credential.close) main returns.
CleanupStep(w) ==
    /\ cleanup[w].pc \in 1..Len(CleanupSteps)
    /\ cleanup' = [cleanup EXCEPT ![w] =
            [pc |-> @.pc + 1,
             attempted |-> @.attempted \cup {CleanupSteps[@.pc]},
             done |-> @.done \cup {CleanupSteps[@.pc]}]]
    /\ UNCHANGED <<mainpc, turn_limit, turn_count, lists, pending, inv,
                   events, started, calls, odd, runs, conv>>

\* main, lines 210-217: the next call of the finally block raises; the
\* `except Exception: pass` of lines 216-217 swallows it and main returns
\* without making the calls that follow.
CleanupRaises(w) ==
    /\ cleanup[w].pc \in 1..Len(CleanupSteps)
    /\ cleanup' = [cleanup EXCEPT ![w] =
            [pc |-> Len(CleanupSteps) + 1,
             attempted |-> @.attempted \cup {CleanupSteps[@.pc]},
             done |-> @.done]]
    /\ UNCHANGED <<mainpc, turn_limit, turn_count, lists, pending, inv,
                   events, started, calls, odd, runs, conv>>

\* A caller runs the same built workflow again after its run has ended.
RunAgain(w) ==
    /\ mainpc[w] = "ended"
    /\ cleanup[w].pc = 0
    /\ runs[w] < MaxRuns
    /\ BeginRun(w)

Step(w) ==
    \/ BuildWorkflow(w)
    \/ BuildRaises(w)
    \/ RunStream(w)
    \/ HandleStartMessage(w)
    \/ HandleTeacherQuestion(w)
    \/ HandleStudentAnswer(w)
    \/ StudentWake(w)
    \/ TeacherWake(w)
    \/ StartResume(w)
    \/ StudentResume(w)
    \/ TeacherResume(w)
    \/ AgentRaises(w)
    \/ StreamEnds(w)
    \/ EnterFinally(w)
    \/ CleanupStep(w)
    \/ CleanupRaises(w)

Next == \E w \in Workflows : Step(w)

Spec == Init /\ [][Next]_vars

\* The same program under fair scheduling: the event loop runs whatever
\* is ready, and every sleep and agent call returns or raises.
FairSpec == Init /\ [][Next]_vars /\ WF_vars(Next)

\* The limit of line 135 taken as a parameter N in 0..MaxLimit.
InitN == InitWith({1}, 0..MaxLimit, MaxOdd)
SpecN == InitN /\ [][Next]_vars

\* A caller that runs the built workflow again once a run has ended.
NextRerun == \E w \in Workflows : Step(w) \/ RunAgain(w)
SpecRerun == Init /\ [][NextRerun]_vars

\* The configuration built twice, each with its own executors, and the two
\* runs interleaved step by step.
InitTwo == InitWith({1, 2}, {TurnLimit}, 0)
SpecTwo == InitTwo /\ [][Next]_vars

\* ---------------------------------------------------------- properties
\* Shorthands used by the properties below.
HSA == "handle_student_answer"
HTQ == "handle_teacher_question"
HSM == "handle_start_message"

\* The run of w has added the completion event to its stream.
Completed(w) == events[w] # <<>>

\* The caller of w is in the except branch of line 205.
RunFailed(w) == mainpc[w] = "except"

\* The caller of w has left the loop of line 201 with the stream exhausted.
RunEnded(w) == mainpc[w] = "ended"

\* Invocations of handler h of w suspended at `pc`.
Suspended(w, h, pc) ==
    Cardinality({i \in 1..Len(inv[w]) : inv[w][i].h = h /\ inv[w][i].pc = pc})

\* Invocations of handle_student_answer of the current run that are past
\* the sleep, i.e. have executed lines 132-135.
Woken(w) == started[w][HSA] - Suspended(w, HSA, "sleep")

\* The conversation of the current run of w.
ConvOf(w) == IF conv[w] = 0 THEN <<>> ELSE lists[conv[w]]

\* Every agent response in conversation c was a single turn: teacher and
\* student answer in turn, so no two neighbouring turns have one author.
AllSingle(c) == \A i \in 2..Len(c) : c[i].by # c[i - 1].by

TurnsBy(c, who) == Cardinality({i \in 1..Len(c) : c[i].by = who})

\* str.lower() on the texts of the model.
Lower(t) ==
    CASE t = "Completed" -> "completed"
      [] t = "COMPLETED" -> "completed"
      [] OTHER -> t

\* `"completed" in turn.text.lower()`.
ContainsSentinel(turn) == Lower(turn.text) = "completed"

\* C1: with turn limit N >= 1 the completion event is emitted by the N-th
\* invocation of handle_student_answer, when it executes line 135: never
\* earlier, never by a later one (there is no (N+1)-th invocation), and
\* after N invocations of handle_teacher_question.
C1_ExactRoundTrips ==
    \A w \in Workflows : turn_limit >= 1 =>
        /\ started[w][HSA] <= turn_limit
        /\ Completed(w) <=> Woken(w) = turn_limit
        /\ Completed(w) => /\ Len(events[w]) = 1
                           /\ started[w][HTQ] = turn_limit

C1_Witness ==
    /\ turn_limit = TurnLimit
    /\ Completed(1)
    /\ started[1][HSA] = TurnLimit

\* C2 (as stated): when every agent response is one turn, the run ends
\* with the counter at 5, one completion event and a conversation of
\* exactly 10 turns.
C2_TenTurns ==
    \A w \in Workflows : (Completed(w) /\ AllSingle(ConvOf(w))) =>
        /\ turn_count[ExecutorOf(w)] = TurnLimit
        /\ Len(events[w]) = 1
        /\ Len(ConvOf(w)) = 2 * TurnLimit

\* C2 (amended): under the same assumption the final conversation has 11
\* turns: the user turn built from the start message, then 5 question/
\* answer pairs; the counter is 5 and there is one completion event.
C2_ElevenTurns ==
    \A w \in Workflows :
        /\ Len(events[w]) <= 1
        /\ ~Completed(w) => turn_count[ExecutorOf(w)] < TurnLimit
        /\ (Completed(w) /\ AllSingle(ConvOf(w))) =>
              /\ turn_count[ExecutorOf(w)] = TurnLimit
              /\ Len(events[w]) = 1
              /\ Len(ConvOf(w)) = 2 * TurnLimit + 1
              /\ ConvOf(w)[1] = UserTurn(StartMessage)
              /\ TurnsBy(ConvOf(w), "teacher") = TurnLimit
              /\ TurnsBy(ConvOf(w), "student") = TurnLimit

C2_Witness ==
    /\ Completed(1)
    /\ AllSingle(ConvOf(1))
    /\ Len(ConvOf(1)) = 11

\* C3: once the completion event has been emitted nothing is pending and
\* no handler is in progress, and no later step delivers a message, begins
\* a handler, calls an agent or adds a second event.
C3_Quiescent ==
    [][\A w \in Workflows : Completed(w) =>
          /\ pending[w] = <<>> /\ inv[w] = <<>>
          /\ pending'[w] = <<>> /\ inv'[w] = <<>>
          /\ started'[w] = started[w]
          /\ calls'[w] = calls[w]
          /\ events'[w] = events[w]
          /\ lists' = lists]_vars

C3_Witness == Completed(1) /\ RunEnded(1) /\ Len(events[1]) = 1

\* The run of w is over: completed and its stream exhausted, or failed.
Terminal(w) == (RunEnded(w) /\ Completed(w)) \/ RunFailed(w)

\* C4: under fair scheduling every run reaches a terminal state, which is
\* the completion event or the error of the except branch.
C4_Terminates ==
    \A w \in Workflows : (mainpc[w] # "off") ~> Terminal(w)

C4_Witness == RunFailed(1) /\ started[1][HSA] = TurnLimit - 1

\* C5: the teacher never asks its agent for a next question on a
\* conversation whose latest turn carries the sentinel: such a delivery
\* ends the run.
C5_SentinelEndsRun ==
    \A w \in Workflows : \A i \in 1..Len(inv[w]) :
        (inv[w][i].h = HSA /\ inv[w][i].pc = "run") =>
            ~ContainsSentinel(lists[inv[w][i].ref][Len(lists[inv[w][i].ref])])

\* C6 (as stated): with turn limit 0 the completion event is emitted
\* without any agent.run call having been made.
C6_NoCallAtZero ==
    \A w \in Workflows : (turn_limit = 0 /\ Completed(w)) => calls[w] = NoCalls

\* C6 (amended): with turn limit 0 the limit is first tested at line 135,
\* in the first invocation of handle_student_answer, so the run completes
\* there, after one call of the teacher agent (line 110) and one of the
\* student agent (line 69), and handles no second student answer.
C6_ZeroEndsAtFirstAnswer ==
    \A w \in Workflows : turn_limit = 0 =>
        /\ started[w][HSA] <= 1
        /\ Completed(w) <=> Woken(w) = 1
        /\ Completed(w) => calls[w] = [a \in Agents |-> 1]

C6_Witness == turn_limit = 0 /\ Completed(1) /\ calls[1]["student"] = 1

C8_Isolated ==
    /\ [][\A w \in Workflows :
            (mainpc'[w] = mainpc[w] /\ pending'[w] = pending[w]
                /\ inv'[w] = inv[w]) =>
                /\ turn_count'[ExecutorOf(w)] = turn_count[ExecutorOf(w)]
                /\ ConvOf(w)' = ConvOf(w)]_vars
    /\ [](\A w \in Workflows : Completed(w) =>
            /\ started[w][HSA] = TurnLimit
            /\ turn_count[ExecutorOf(w)] = TurnLimit)

C8_Witness ==
    /\ Completed(1) /\ Completed(2)
    /\ conv[1] # conv[2]
    /\ turn_count[ExecutorOf(1)] = TurnLimit
    /\ turn_count[ExecutorOf(2)] = TurnLimit

\* C9: when an agent call has raised, the run is in the except branch
\* with nothing pending, no handler in progress and no completion event:
\* the failing handler sent nothing, and nothing is delivered afterwards.
C9_FailureIsTerminal ==
    /\ [](\A w \in Workflows : RunFailed(w) =>
            pending[w] = <<>> /\ inv[w] = <<>> /\ events[w] = <<>>)
    /\ [][\A w \in Workflows :
            /\ (~RunFailed(w) /\ RunFailed(w)') =>
                  pending'[w] = pending[w] /\ events'[w] = events[w]
                      /\ lists' = lists
            /\ RunFailed(w) =>
                  RunFailed(w)' /\ started'[w] = started[w]
                      /\ calls'[w] = calls[w]]_vars

C9_Witness ==
    /\ RunFailed(1)
    /\ calls[1]["student"] = 1
    /\ started[1][HSA] = 0

\* C10: at most one handler invocation is in progress, and while one is,
\* no delivery is pending that another could start from; so every
\* increment of line 132 counts: the counter equals the number of
\* invocations of handle_student_answer that are past the sleep.
C10_OneAtATime ==
    \A w \in Workflows :
        /\ Len(inv[w]) <= 1
        /\ Len(pending[w]) <= 1
        /\ inv[w] # <<>> => pending[w] = <<>>
        /\ runs[w] = 1 => turn_count[ExecutorOf(w)] = Woken(w)

C10_Witness ==
    /\ Len(inv[1]) = 1
    /\ inv[1][1].h = HSA
    /\ inv[1][1].pc = "run"
    /\ turn_count[ExecutorOf(1)] = 3

\* The latest turn of conversation c.
LastTurn(c) == c[Len(c)]

\* C11: every pending message has a handler at its target: the start
\* string goes to the teacher's handle_start_message, a list whose latest
\* turn is the teacher's goes to the student's handle_teacher_question,
\* one whose latest turn is the student's to the teacher's
\* handle_student_answer; every handler in progress received such a
\* message; a handler that returns without completing the run queues one
\* message, and a message leaves the queue only by being delivered.
C11_Routed ==
    /\ [](\A w \in Workflows :
            /\ \A i \in 1..Len(pending[w]) :
                 LET m == pending[w][i] IN
                 /\ HandlerFor(m.to, m.type) \in Handlers
                 /\ m.type = "str" =>
                       m.to = "teacher"
                           /\ HandlerFor(m.to, m.type) = HSM
                 /\ m.type = "list" =>
                       LET s == LastTurn(lists[m.ref]).by IN
                       /\ <<s, m.to>> \in {<<"teacher", "student">>,
                                            <<"student", "teacher">>}
                       /\ HandlerFor(m.to, m.type) =
                              (IF s = "teacher" THEN HTQ ELSE HSA)
            /\ \A i \in 1..Len(inv[w]) :
                 LET v == inv[w][i] IN
                 /\ v.h = HSM => v.node = "teacher"
                 /\ v.h = HTQ => v.node = "student"
                       /\ LastTurn(lists[v.ref]).by = "teacher"
                 /\ v.h = HSA => v.node = "teacher"
                       /\ LastTurn(lists[v.ref]).by = "student")
    /\ [][\A w \in Workflows :
            /\ (Len(inv'[w]) < Len(inv[w]) /\ events'[w] = events[w]
                    /\ mainpc'[w] = mainpc[w]) =>
                  Len(pending'[w]) = Len(pending[w]) + 1
            /\ Len(pending'[w]) < Len(pending[w]) =>
                  Len(inv'[w]) = Len(inv[w]) + 1]_vars

C11_Witness ==
    /\ Len(pending[1]) = 1
    /\ pending[1][1].type = "list"
    /\ pending[1][1].to = "teacher"
    /\ started[1][HSA] = 2

\* a is a prefix of b.
IsPrefix(a, b) == Len(a) <= Len(b) /\ SubSeq(b, 1, Len(a)) = a

\* C12: no step removes a list or changes one other than by appending to
\* it, and every list begins with the user turn built from the start
\* message: what a handler sends on has what it received as a prefix.
C12_AppendOnly ==
    /\ [][/\ Len(lists') >= Len(lists)
          /\ \A r \in 1..Len(lists) : IsPrefix(lists[r], lists'[r])]_vars
    /\ [](\A r \in 1..Len(lists) :
            lists[r] # <<>> /\ lists[r][1] = UserTurn(StartMessage))

C12_Witness ==
    /\ Len(ConvOf(1)) = 6
    /\ Len(pending[1]) = 1
    /\ LastTurn(ConvOf(1)).by = "student"

\* Pending messages and handler invocations of w that hold list r.
HoldersIn(w, r) ==
    Cardinality({i \in 1..Len(pending[w]) :
                    pending[w][i].type = "list" /\ pending[w][i].ref = r})
    + Cardinality({i \in 1..Len(inv[w]) : inv[w][i].ref = r})

\* C13: a list is held by at most one pending message or handler
\* invocation at a time; the only step that changes a list is that of the
\* invocation holding it, whose agent call has returned, and with that
\* step the invocation ends and the list is pending for the other node.
C13_OneOwner ==
    /\ [](\A r \in 1..Len(lists) :
            /\ \A w \in Workflows : HoldersIn(w, r) <= 1
            /\ Cardinality({w \in Workflows : HoldersIn(w, r) > 0}) <= 1)
    /\ [][\A r \in 1..Len(lists) : lists'[r] # lists[r] =>
            \E w \in Workflows : \E i \in 1..Len(inv[w]) :
                /\ inv[w][i].ref = r
                /\ inv[w][i].pc = "run"
                /\ \A j \in 1..Len(inv'[w]) : inv'[w][j].ref # r
                /\ \E j \in 1..Len(pending'[w]) :
                     /\ pending'[w][j].ref = r
                     /\ pending'[w][j].to # inv[w][i].node]_vars

C13_Witness ==
    /\ Len(inv[1]) = 1
    /\ inv[1][1].h = HTQ
    /\ inv[1][1].pc = "run"
    /\ Len(lists[inv[1][1].ref]) >= 4
    /\ pending[1] = <<>>

\* C14 (as stated): in every state of a run on fresh executors the
\* counter equals the number of invocations of handle_student_answer
\* begun so far, and lies in 0..5.
C14_CountsBegun ==
    \A w \in Workflows :
        /\ turn_count[ExecutorOf(w)] = started[w][HSA]
        /\ turn_count[ExecutorOf(w)] \in 0..TurnLimit

\* C14 (amended): the counter changes only by one, and only in the step
\* in which an invocation of handle_student_answer leaves the sleep of
\* line 131; so it equals the number of invocations that are past that
\* sleep, one less than the number begun while one is still asleep; it
\* lies in 0..5, and the run is completed exactly when it equals 5.
C14_CountsPastSleep ==
    /\ [](\A w \in Workflows :
            /\ turn_count[ExecutorOf(w)] = Woken(w)
            /\ turn_count[ExecutorOf(w)] =
                  started[w][HSA] - Suspended(w, HSA, "sleep")
            /\ Suspended(w, HSA, "sleep") <= 1
            /\ turn_count[ExecutorOf(w)] \in 0..TurnLimit
            /\ Completed(w) <=> turn_count[ExecutorOf(w)] = TurnLimit)
    /\ [][\A w \in Workflows :
            turn_count'[ExecutorOf(w)] # turn_count[ExecutorOf(w)] =>
                /\ turn_count'[ExecutorOf(w)] = turn_count[ExecutorOf(w)] + 1
                /\ Suspended(w, HSA, "sleep")' = Suspended(w, HSA, "sleep") - 1
                /\ started'[w] = started[w]]_vars

C14_Witness ==
    /\ Suspended(1, HSA, "sleep") = 1
    /\ started[1][HSA] = 3
    /\ turn_count[ExecutorOf(1)] = 2

\* An invocation of handler h of w has left suspension `pc` in this step.
Leaves(w, h, pc) == Suspended(w, h, pc)' < Suspended(w, h, pc)

\* What both versions of C15 say of the invocation that returns: either
\* the completion event and nothing else, or (`sends`) the response
\* appended to the list and one message queued, and no event.
ReturnsAs(w, sends) ==
    IF sends
    THEN /\ events'[w] = events[w]
         /\ Len(pending'[w]) = Len(pending[w]) + 1
         /\ \E r \in 1..Len(lists) :
                Len(lists'[r]) > Len(lists[r]) /\ IsPrefix(lists[r], lists'[r])
    ELSE /\ events'[w] = Append(events[w], "WorkflowCompletedEvent")
         /\ pending'[w] = pending[w]
         /\ lists' = lists
         /\ calls'[w] = calls[w]

\* C15 (as stated): an invocation of handle_student_answer that ends has
\* either emitted the completion event, made no call and sent nothing, or
\* called the teacher agent once, appended the response and sent one
\* message.
C15_OneOfTwo ==
    [][\A w \in Workflows :
          /\ Leaves(w, HSA, "sleep") /\ Suspended(w, HSA, "run")' =
                Suspended(w, HSA, "run") => ReturnsAs(w, FALSE)
          /\ Leaves(w, HSA, "run") => ReturnsAs(w, TRUE)]_vars

\* C15 (amended): an invocation of handle_student_answer past the sleep
\* either (limit reached) emits one completion event, calls no agent,
\* leaves the lists alone and sends nothing, or makes one call of the
\* teacher agent and no event; when that call returns it appends the
\* response and sends one message; when it raises it does neither.
C15_OneOfTwoOrRaise ==
    [][\A w \in Workflows :
          /\ Leaves(w, HSA, "sleep") =>
                IF turn_count'[ExecutorOf(w)] >= turn_limit
                THEN /\ ReturnsAs(w, FALSE)
                     /\ Suspended(w, HSA, "run")' = Suspended(w, HSA, "run")
                ELSE /\ calls'[w] = [calls[w] EXCEPT !["teacher"] = @ + 1]
                     /\ events'[w] = events[w]
                     /\ pending'[w] = pending[w]
                     /\ lists' = lists
                     /\ Suspended(w, HSA, "run")' =
                            Suspended(w, HSA, "run") + 1
          /\ Leaves(w, HSA, "run") =>
                /\ calls'[w] = calls[w]
                /\ IF RunFailed(w)'
                   THEN /\ pending'[w] = pending[w]
                        /\ lists' = lists
                        /\ events'[w] = events[w]
                   ELSE ReturnsAs(w, TRUE)]_vars

C15_Witness ==
    /\ Completed(1)
    /\ calls[1]["teacher"] = TurnLimit
    /\ started[1][HSA] = TurnLimit
    /\ pending[1] = <<>>

\* C16: handle_start_message is invoked once and first, then
\* handle_teacher_question and handle_student_answer in alternation, the
\* student's first; at most one message is pending, and none while a
\* handler is in progress.
C16_Alternation ==
    /\ [](\A w \in Workflows :
            /\ started[w][HSM] <= 1
            /\ started[w][HTQ] > 0 => started[w][HSM] = 1
            /\ started[w][HTQ] - started[w][HSA] \in {0, 1}
            /\ Len(pending[w]) + Len(inv[w]) <= 1
            /\ \A i \in 1..Len(inv[w]) :
                 /\ inv[w][i].h = HTQ =>
                       started[w][HTQ] = started[w][HSA] + 1
                 /\ inv[w][i].h = HSA =>
                       started[w][HTQ] = started[w][HSA])
    /\ [][\A w \in Workflows : started'[w] # started[w] =>
            \E h \in Handlers :
                started'[w] = [started[w] EXCEPT ![h] = @ + 1]]_vars

C16_Witness ==
    /\ started[1] = [h \in Handlers |->
                        IF h = HSM THEN 1 ELSE IF h = HTQ THEN 3 ELSE 2]
    /\ Len(inv[1]) = 1
    /\ inv[1][1].h = HTQ

\* C17: whenever a started run has nothing pending and no handler in
\* progress, it has emitted the completion event or failed; a stream that
\* ended normally carries the completion event.
C17_NoSilentEnd ==
    \A w \in Workflows :
        /\ (mainpc[w] \in {"stream", "ended", "except"}
                /\ pending[w] = <<>> /\ inv[w] = <<>>) =>
              Completed(w) \/ RunFailed(w)
        /\ RunEnded(w) => Completed(w)

C17_Witness ==
    /\ RunEnded(1)
    /\ Completed(1)
    /\ pending[1] = <<>> /\ inv[1] = <<>>
    /\ calls[1] = [a \in Agents |-> TurnLimit]

\* C18: at completion the teacher agent has been called 5 times, once by
\* handle_start_message and 4 times by handle_student_answer, the student
\* agent 5 times; the latest turn of the conversation is the student's
\* (from its fifth response), and no call of the teacher agent follows.
C18_CallCounts ==
    /\ [](\A w \in Workflows : Completed(w) =>
            /\ calls[w] = [a \in Agents |-> TurnLimit]
            /\ started[w][HSM] = 1
            /\ started[w][HSA] = TurnLimit
            /\ calls[w]["teacher"] - started[w][HSM] = TurnLimit - 1
            /\ started[w][HTQ] = TurnLimit
            /\ LastTurn(ConvOf(w)).by = "student"
            /\ TurnsBy(ConvOf(w), "student") >= TurnLimit)
    /\ [][\A w \in Workflows : Completed(w) =>
            calls'[w] = calls[w] /\ ConvOf(w)' = ConvOf(w)]_vars

C18_Witness ==
    /\ Completed(1)
    /\ LastTurn(ConvOf(1)).by = "student"
    /\ TurnsBy(ConvOf(1), "student") = TurnLimit + 1
    /\ ~RunFailed(1)

\* main has returned: the finally block is over.
MainReturned(w) == cleanup[w].pc = Len(CleanupSteps) + 1

\* C19: whatever the outcome of the run, when main returns the deletion of
\* the student agent and of the teacher agent has been attempted and the
\* client and the credential have been closed.
C19_CleansUpAlways ==
    \A w \in Workflows : MainReturned(w) =>
        /\ {"delete_student", "delete_teacher"} \subseteq cleanup[w].attempted
        /\ {"close_client", "close_credential"} \subseteq cleanup[w].done

====
